---------------------------- MODULE Spec2Model ----------------------------
(***************************************************************************)
(* A model of the reconciliation and catalog-consistency engine of the     *)
(* video file lister (src/FileLister1db.py): the Files table with its      *)
(* UNIQUE(file_name, size_bytes) constraint, the scan list, the            *)
(* classification of scanned files against the catalog, the batch writers  *)
(* (export_to_sqlite, apply_action, force_insert_selected_files,           *)
(* update_storage_id_from_scan), the verify-against-disk window and its    *)
(* fixes, and the explicit deletes and reset.                              *)
(*                                                                         *)
(* Text values are TLA+ strings.  File names and directories are single    *)
(* letters; a path is the tuple <<directory, base name, extension>> that   *)
(* os.path.join builds.  None / SQL NULL is the empty tuple and a present  *)
(* value v is <<v>>.                                                       *)
(*                                                                         *)
(* The state holds the content of one catalog file, VideoFiles.db         *)
(* (master_db_path).  current_db_path names the same file until            *)
(* open_sqlite_db picks another one; the content of other files is not     *)
(* part of the state, and the handlers that work on current_db_path act    *)
(* only while it names VideoFiles.db.  Paths are compared as on Windows,   *)
(* where os.path.normcase lower-cases them.                                *)
(*                                                                         *)
(* The handlers are written without what they do to the viewer tab.  The   *)
(* specifications that do not follow the viewer leave the variable viewer  *)
(* as it is (Unobserved); SpecViewer joins every handler with its call of  *)
(* load_db_records, or with none where the handler makes none (Viewed).    *)
(*                                                                         *)
(* The folder does not change between list_files and the rescans of        *)
(* show_unmatched_scanned_files and verify_db_vs_disk.  The unmatched      *)
(* window is modal; the model also keeps the main window idle while the    *)
(* verification window is open.                                            *)
(***************************************************************************)
EXTENDS Integers, Sequences, FiniteSets, TLC

VARIABLES
    files,            \* the rows of table Files of the catalog file
    next_id,          \* the next AUTOINCREMENT id of table Files
    categories,       \* the names in table Categories
    storage_id_var,   \* text of the "Storage ID" entry
    disk,             \* video files of the selected folder, in walk order
    all_files_info,   \* the listed scan (list_files)
    unmatched_open,   \* the modal "Unmatched Video Files" window is open
    unmatched,        \* its rows: (descriptor, reason, db_id)
    problems_open,    \* the "DB vs Disk Verification" window is open
    problems,         \* its rows: (rid, name, size, path, problem)
    disk_index,       \* the disk lookup captured by the verification
    msg,              \* the message box the last handler showed, if any
    current_db_path,  \* the catalog file the viewer and the editors work on
    settings,         \* the content of the settings file app_settings.json
    viewer            \* the "SQLite Viewer" tab: db_records_cache,
                      \* all_filtered_rows, page_size, current_page,
                      \* total_pages, _db_sort_reverse

vars == <<files, next_id, categories, storage_id_var, disk,
          all_files_info, unmatched_open, unmatched,
          problems_open, problems, disk_index, msg,
          current_db_path, settings, viewer>>

catalog == <<files, next_id, categories>>
mainwin == <<storage_id_var, disk, all_files_info>>
unmatchedwin == <<unmatched_open, unmatched>>
problemswin == <<problems_open, problems, disk_index>>
session == <<current_db_path, settings>>

-----------------------------------------------------------------------------
(* Bounds of the model *)

MaxScan == 2      \* most files a folder holds
MaxId == 2        \* most ids the AUTOINCREMENT sequence hands out before a reset

Names == {"a", "b"}
Dirs == {"d", "D", "e"}
Sizes == {1, 2}
StorageTexts == {"", "A", "B "}

NULL == <<>>
Some(v) == <<v>>

-----------------------------------------------------------------------------
(* Text helpers *)

\* str.lower() on the letters the model uses
Lower(s) ==
    CASE s = "A" -> "a"
      [] s = "B" -> "b"
      [] s = "D" -> "d"
      [] s = "E" -> "e"
      [] s = ".MP4" -> ".mp4"
      [] s = "Drama" -> "drama"
      [] s = "DRAMA" -> "drama"
      [] OTHER -> s

\* str.strip() on the texts the model uses
Strip(s) ==
    CASE s = " " -> ""
      [] s = "B " -> "B"
      [] s = " A" -> "A"
      [] s = " b" -> "b"
      [] s = " Drama " -> "Drama"
      [] s = "drama " -> "drama"
      [] OTHER -> s

\* a name stored as it was typed
Title_AsTyped(s) == s

\* str.title() on the texts the model uses
Title(s) ==
    CASE s = "a" -> "A"
      [] s = "b" -> "B"
      [] s = "drama" -> "Drama"
      [] s = "DRAMA" -> "Drama"
      [] OTHER -> s

\* a check that lets every text through
isdigit_Any(s) == TRUE

\* str.isdigit() and int() on the texts the model uses
isdigit(s) == s \in {"1999"}

int(s) == CASE s = "1999" -> 1999 [] OTHER -> 0

\* code point of a lower-case letter, the order sorted() compares by
CodePoint(c) ==
    CASE c = "a" -> 97
      [] c = "b" -> 98
      [] c = "d" -> 100
      [] c = "e" -> 101
      [] OTHER -> 0

\* os.path.normcase on Windows: lower-cases every component of the path
normcase(p) == [i \in DOMAIN p |-> Lower(p[i])]

\* format_date of a scan's creation date, always a str: returned as it is
format_date(d) == d

allowed_video_exts ==
    {".mp4", ".mkv", ".avi", ".mov", ".mpg", ".mpeg",
     ".wmv", ".flv", ".webm", ".m4v", ".3gp", ".ts", ".divx"}

-----------------------------------------------------------------------------
(* The folder on disk and the scan *)

\* creation time of a file, as os.path.getctime reads it: files under "e"
\* are the newer copies
getctime(dir) == IF dir = "e" THEN "t2" ELSE "t1"

\* the files a folder may hold: "a" of size 1 under any directory, and "a" of
\* size 2 and "b" of size 1 under "d"
DiskFiles ==
    {d \in [dir : Dirs, base : Names, ext : {".mp4"}, size : Sizes] :
        /\ d.size = 2 => d.base = "a" /\ d.dir = "d"
        /\ d.base = "b" => d.dir = "d"}

PathOf(d) == <<d.dir, d.base, d.ext>>

\* the first 19xx/20xx token of the file name; the model's names hold no digit
extract_year_from_filename(filename) == NULL

\* what process_file appends for one file of the walk
process_file(d) ==
    [name_without_ext |-> d.base,
     full_path        |-> PathOf(d),
     extension        |-> Lower(d.ext),
     size             |-> d.size,
     creation_date    |-> getctime(d.dir),
     year             |-> extract_year_from_filename(d.base),
     category         |-> NULL]

\* a scan without the extension filter
RECURSIVE get_files_info_All(_)
get_files_info_All(walk) ==
    IF walk = <<>> THEN <<>>
    ELSE <<process_file(Head(walk))>> \o get_files_info_All(Tail(walk))

RECURSIVE get_files_info(_)
get_files_info(walk) ==
    IF walk = <<>> THEN <<>>
    ELSE IF Lower(Head(walk).ext) \notin allowed_video_exts
         THEN get_files_info(Tail(walk))
         ELSE <<process_file(Head(walk))>> \o get_files_info(Tail(walk))

\* the folder contents the model draws from: at most MaxScan files, no two
\* at the same path of the case-insensitive file system
Walks ==
    UNION {{w \in [1..n -> DiskFiles] :
              \A i, j \in 1..n :
                  i # j => normcase(PathOf(w[i])) # normcase(PathOf(w[j]))}
           : n \in 0..MaxScan}

\* list.sort(key=lambda x: x["name_without_ext"].lower()): a stable sort
SortKey(f) == CodePoint(Lower(f.name_without_ext))

RECURSIVE InsertSorted(_, _)
InsertSorted(sorted, f) ==
    IF sorted = <<>> THEN <<f>>
    ELSE IF SortKey(Head(sorted)) <= SortKey(f)
         THEN <<Head(sorted)>> \o InsertSorted(Tail(sorted), f)
         ELSE <<f>> \o sorted

RECURSIVE SortByName(_)
SortByName(fs) ==
    IF fs = <<>> THEN <<>>
    ELSE InsertSorted(SortByName(SubSeq(fs, 1, Len(fs) - 1)), fs[Len(fs)])

-----------------------------------------------------------------------------
(* The catalog: table Files *)

get_storage_id == IF Strip(storage_id_var) # "" THEN Strip(storage_id_var) ELSE "UNKNOWN"

\* SELECT ... FROM Files WHERE file_name=? AND size_bytes=?
SelectExact(rows, name, size) ==
    {r \in rows : r.file_name = name /\ r.size_bytes = size}

\* SELECT 1 FROM Files WHERE file_name=?
SelectName(rows, name) == {r \in rows : r.file_name = name}

\* cursor.fetchone(): the row with the lowest rowid of the result
fetchone(result) == CHOOSE r \in result : \A q \in result : r.id <= q.id

\* a table created without the UNIQUE constraint: no insert is refused
UniqueViolated_Off(rows, name, size) == FALSE

\* UNIQUE(file_name, size_bytes): an insert of an existing pair raises IntegrityError
UniqueViolated(rows, name, size) == SelectExact(rows, name, size) # {}

\* load_duplicate_records: the rows whose (file_name, size_bytes) group
\* HAVING COUNT(*) > 1, with the columns of the duplicate report
load_duplicate_records(rows) ==
    {[id |-> r.id, file_name |-> r.file_name, size_bytes |-> r.size_bytes,
      storage_id |-> r.storage_id, full_path |-> r.full_path] :
        r \in {r \in rows :
                  Cardinality(SelectExact(rows, r.file_name, r.size_bytes)) > 1}}

\* a batch in progress on one connection: the uncommitted table and the counters
Begin(rows, nid) ==
    [files |-> rows, next_id |-> nid, inserted |-> 0, updated |-> 0,
     blocked |-> 0, skipped |-> 0, err |-> FALSE]

\* a row that ignores the storage id of the scan
\* added_on TEXT DEFAULT CURRENT_TIMESTAMP: the time of the INSERT, kept as
\* the position of the insert in the AUTOINCREMENT sequence
CURRENT_TIMESTAMP(id) == id

NewRow_Unknown(id, f, sid) ==
    [id            |-> id,
     file_name     |-> f.name_without_ext,
     extension     |-> f.extension,
     size_bytes    |-> f.size,
     storage_id    |-> "UNKNOWN",
     creation_date |-> format_date(f.creation_date),
     full_path     |-> f.full_path,
     year          |-> f.year,
     category      |-> f.category,
     added_on      |-> CURRENT_TIMESTAMP(id)]

NewRow(id, f, sid) ==
    [id            |-> id,
     file_name     |-> f.name_without_ext,
     extension     |-> f.extension,
     size_bytes    |-> f.size,
     storage_id    |-> sid,
     creation_date |-> format_date(f.creation_date),
     full_path     |-> f.full_path,
     year          |-> f.year,
     category      |-> f.category,
     added_on      |-> CURRENT_TIMESTAMP(id)]

\* INSERT INTO Files (...) VALUES (...)
InsertFile(tx, f, sid) ==
    IF UniqueViolated(tx.files, f.name_without_ext, f.size)
    THEN [tx EXCEPT !.err = TRUE]
    ELSE [tx EXCEPT !.files = @ \cup {NewRow(tx.next_id, f, sid)},
                    !.next_id = @ + 1]

\* an UPDATE that leaves full_path out of its SET list
UpdateMoved_KeepsPath(rows, sid, path, cdate, id) ==
    {IF r.id = id
     THEN [r EXCEPT !.storage_id = sid, !.creation_date = cdate]
     ELSE r : r \in rows}

\* UPDATE Files SET storage_id=?, full_path=?, creation_date=? WHERE id=?
UpdateMoved(rows, sid, path, cdate, id) ==
    {IF r.id = id
     THEN [r EXCEPT !.storage_id = sid, !.full_path = path, !.creation_date = cdate]
     ELSE r : r \in rows}

\* UPDATE Files SET full_path=? WHERE id=?
UpdatePath(rows, path, id) ==
    {IF r.id = id THEN [r EXCEPT !.full_path = path] ELSE r : r \in rows}

\* UPDATE Files SET year=? WHERE id=?
UpdateYear(rows, year, id) ==
    {IF r.id = id THEN [r EXCEPT !.year = year] ELSE r : r \in rows}

\* a REPLACE INTO in place of the UPDATE: the row is written anew
UpdateCategory_Replaces(rows, category, id) ==
    {IF r.id = id
     THEN [r EXCEPT !.category = category, !.added_on = @ + 1]
     ELSE r : r \in rows}

\* UPDATE Files SET category=? WHERE id=?
UpdateCategory(rows, category, id) ==
    {IF r.id = id THEN [r EXCEPT !.category = category] ELSE r : r \in rows}

Ids(rows) == {r.id : r \in rows}

\* a connection that commits what was executed when it is dropped
Abort_Commits(rows, nid, tx) == [files |-> tx.files, next_id |-> tx.next_id]

\* the handler returns from its except clause without conn.commit(): the
\* connection is dropped and SQLite rolls the open transaction back
Abort(rows, nid, tx) == [files |-> rows, next_id |-> nid]

Message(op, kind, tx) ==
    [op |-> op, kind |-> kind, inserted |-> tx.inserted, updated |-> tx.updated,
     blocked |-> tx.blocked, skipped |-> tx.skipped]

Note(op, kind) == Message(op, kind, Begin({}, 0))

\* the handler showed no message box
Quiet == Note("", "")

-----------------------------------------------------------------------------
(* export_to_sqlite *)

\* a loop that moves a row found under another storage to the scanned one
ExportOne_TakesOver(tx, f, sid) ==
    IF Lower(f.extension) \notin allowed_video_exts THEN tx
    ELSE LET result == SelectExact(tx.files, f.name_without_ext, f.size) IN
         IF result = {}
         THEN [InsertFile(tx, f, sid) EXCEPT !.inserted = @ + 1]
         ELSE IF fetchone(result).full_path # f.full_path
                 \/ fetchone(result).storage_id # sid
              THEN [tx EXCEPT
                      !.files = UpdateMoved(@, sid, f.full_path,
                                            format_date(f.creation_date),
                                            fetchone(result).id),
                      !.updated = @ + 1]
              ELSE tx

\* one pass of the loop over all_files_info
ExportOne(tx, f, sid) ==
    IF Lower(f.extension) \notin allowed_video_exts THEN tx
    ELSE LET result == SelectExact(tx.files, f.name_without_ext, f.size) IN
         IF result = {}
         THEN [InsertFile(tx, f, sid) EXCEPT !.inserted = @ + 1]
         ELSE LET row == fetchone(result) IN
              IF row.storage_id = sid
              THEN IF row.full_path # f.full_path
                   THEN [tx EXCEPT
                           !.files = UpdateMoved(@, sid, f.full_path,
                                                 format_date(f.creation_date), row.id),
                           !.updated = @ + 1]
                   ELSE tx
              ELSE [tx EXCEPT !.blocked = @ + 1]

RECURSIVE ExportLoop(_, _, _)
ExportLoop(tx, fs, sid) ==
    IF fs = <<>> \/ tx.err THEN tx
    ELSE ExportLoop(ExportOne(tx, Head(fs), sid), Tail(fs), sid)

-----------------------------------------------------------------------------
(* show_unmatched_scanned_files and the window it opens *)

Moved == "Movie moved (update path/storage)"
Duplicate == "Duplicate video on another storage (waste)"
Mismatch == "Name match, size mismatch"
NotPresent == "Not present in database"

Item(f, reason, db_id) == [f |-> f, reason |-> reason, db_id |-> db_id]

\* a classification that compares the two paths as they are written
ClassifyOne_ExactPath(rows, f, current_sid) ==
    LET result == SelectExact(rows, f.name_without_ext, f.size) IN
    IF result # {}
    THEN LET row == fetchone(result) IN
         IF row.storage_id = current_sid
         THEN IF row.full_path # f.full_path
              THEN <<Item(f, Moved, Some(row.id))>>
              ELSE <<>>
         ELSE <<Item(f, Duplicate, Some(row.id))>>
    ELSE IF SelectName(rows, f.name_without_ext) # {}
         THEN <<Item(f, Mismatch, NULL)>>
         ELSE <<Item(f, NotPresent, NULL)>>

\* the tuples one scanned file adds to `unmatched`: none when it is in sync
ClassifyOne(rows, f, current_sid) ==
    LET result == SelectExact(rows, f.name_without_ext, f.size) IN
    IF result # {}
    THEN LET row == fetchone(result) IN
         IF row.storage_id = current_sid
         THEN IF normcase(row.full_path) # normcase(f.full_path)
              THEN <<Item(f, Moved, Some(row.id))>>
              ELSE <<>>
         ELSE <<Item(f, Duplicate, Some(row.id))>>
    ELSE IF SelectName(rows, f.name_without_ext) # {}
         THEN <<Item(f, Mismatch, NULL)>>
         ELSE <<Item(f, NotPresent, NULL)>>

RECURSIVE ClassifyAll(_, _, _)
ClassifyAll(rows, fs, current_sid) ==
    IF fs = <<>> THEN <<>>
    ELSE ClassifyOne(rows, Head(fs), current_sid) \o ClassifyAll(rows, Tail(fs), current_sid)

\* tree.selection(): the selected rows in tree order
RECURSIVE Selection(_, _)
Selection(sel, n) ==
    IF n = 0 THEN <<>>
    ELSE Selection(sel, n - 1) \o (IF n \in sel THEN <<n>> ELSE <<>>)

\* a block that refuses only a selection made of duplicates alone
HardBlock_AllDuplicates(reasons) == \A r \in reasons : r = Duplicate

\* the hard block of apply_action
HardBlock(reasons) == \E r \in reasons : r = Duplicate

\* one pass of the loop of apply_action
ApplyOne(tx, item, sid) ==
    IF item.reason = Moved
    THEN [tx EXCEPT
            !.files = UpdateMoved(@, sid, item.f.full_path,
                                  format_date(item.f.creation_date), item.db_id[1]),
            !.updated = @ + 1]
    ELSE IF item.reason \in {NotPresent, Mismatch}
         THEN [InsertFile(tx, item.f, sid) EXCEPT !.inserted = @ + 1]
         ELSE tx

RECURSIVE ApplyLoop(_, _, _)
ApplyLoop(tx, items, sid) ==
    IF items = <<>> \/ tx.err THEN tx
    ELSE ApplyLoop(ApplyOne(tx, Head(items), sid), Tail(items), sid)

\* a forced pass that fails on a file held under another storage
ForceOne_Refuses(tx, f, storage_id) ==
    LET result == SelectExact(tx.files, f.name_without_ext, f.size) IN
    IF result # {}
    THEN LET row == fetchone(result) IN
         IF row.storage_id = storage_id
         THEN IF normcase(row.full_path) # normcase(f.full_path)
              THEN [tx EXCEPT
                      !.files = UpdateMoved(@, storage_id, f.full_path,
                                            format_date(f.creation_date), row.id),
                      !.updated = @ + 1]
              ELSE [tx EXCEPT !.skipped = @ + 1]
         ELSE [tx EXCEPT !.err = TRUE]
    ELSE [InsertFile(tx, f, storage_id) EXCEPT !.inserted = @ + 1]

\* one pass of the loop of force_insert_selected_files
ForceOne(tx, f, storage_id) ==
    LET result == SelectExact(tx.files, f.name_without_ext, f.size) IN
    IF result # {}
    THEN LET row == fetchone(result) IN
         IF row.storage_id = storage_id
         THEN IF normcase(row.full_path) # normcase(f.full_path)
              THEN [tx EXCEPT
                      !.files = UpdateMoved(@, storage_id, f.full_path,
                                            format_date(f.creation_date), row.id),
                      !.updated = @ + 1]
              ELSE [tx EXCEPT !.skipped = @ + 1]
         ELSE [tx EXCEPT !.blocked = @ + 1]
    ELSE [InsertFile(tx, f, storage_id) EXCEPT !.inserted = @ + 1]

RECURSIVE ForceLoop(_, _, _)
ForceLoop(tx, fs, storage_id) ==
    IF fs = <<>> \/ tx.err THEN tx
    ELSE ForceLoop(ForceOne(tx, Head(fs), storage_id), Tail(fs), storage_id)

SelectedItems(sel) == [i \in DOMAIN Selection(sel, Len(unmatched)) |->
                          unmatched[Selection(sel, Len(unmatched))[i]]]

SelectedFiles(sel) == [i \in DOMAIN SelectedItems(sel) |-> SelectedItems(sel)[i].f]

-----------------------------------------------------------------------------
(* The catalog file in use and the settings file *)

master_db_path == "VideoFiles.db"

\* the files the "Select DB" dialog of open_sqlite_db can return
DbPaths == {"VideoFiles.db", "Other.db"}

\* a settings file that is missing or malformed reads as the empty document
NoSettings == [last_db_path |-> NULL]

load_settings == settings

\* save_settings({"last_db_path": db_path})
save_settings(db_path) == [load_settings EXCEPT !.last_db_path = Some(db_path)]

-----------------------------------------------------------------------------
(* The viewer tab: the cached rows and their pages *)

\* the columns of DB_SELECT_ALL
ViewRow(r) ==
    [id |-> r.id, file_name |-> r.file_name, extension |-> r.extension,
     size_bytes |-> r.size_bytes, storage_id |-> r.storage_id,
     creation_date |-> r.creation_date, full_path |-> r.full_path,
     year |-> r.year, category |-> r.category]

\* DB_SELECT_ALL: SELECT ... FROM Files ORDER BY id DESC
RECURSIVE DB_SELECT_ALL(_)
DB_SELECT_ALL(rows) ==
    IF rows = {} THEN <<>>
    ELSE LET r == CHOOSE r \in rows : \A q \in rows : q.id <= r.id IN
         <<ViewRow(r)>> \o DB_SELECT_ALL(rows \ {r})

\* the rows of the catalog file db_path: the state holds those of
\* VideoFiles.db, and any other file is a catalog without rows
RowsOf(db_path, rows) == IF db_path = master_db_path THEN rows ELSE {}

DefaultPageSize == 50

SortColumns == {"No", "Name", "Size"}

\* the viewer as the assignments of __init__ leave it
NewViewer ==
    [db_records_cache  |-> <<>>,
     all_filtered_rows |-> <<>>,
     page_size         |-> DefaultPageSize,
     current_page      |-> 0,
     total_pages       |-> 0,
     db_sort_reverse   |-> [col \in SortColumns |-> FALSE]]

\* (total - 1) // self.page_size + 1 if total > 0 else 1
PageCount(total, page_size) ==
    IF total > 0 THEN (total - 1) \div page_size + 1 ELSE 1

show_db_page(v, page_num) ==
    IF v.all_filtered_rows = <<>> THEN v
    ELSE LET total_pages == IF v.total_pages <= 0 THEN 1 ELSE v.total_pages
             low == IF page_num < 0 THEN 0 ELSE page_num
             page == IF low >= total_pages THEN total_pages - 1 ELSE low IN
         [v EXCEPT !.total_pages = total_pages, !.current_page = page]

\* the end of load_db_records, filter_db_records and sort_db_by_column:
\* rows become all_filtered_rows and the first page is shown
ShowRows(v, rows) ==
    show_db_page([v EXCEPT !.all_filtered_rows = rows,
                           !.total_pages = PageCount(Len(rows), v.page_size),
                           !.current_page = 0], 0)

\* load_db_records on the rows of the current catalog file
load_db_records(v, rows) ==
    ShowRows([v EXCEPT !.db_records_cache = DB_SELECT_ALL(rows)],
             DB_SELECT_ALL(rows))

\* a handler in a specification that does not follow the viewer tab
Unobserved(A) == A /\ UNCHANGED viewer

\* a handler with what it does to the viewer: it calls load_db_records on
\* the current catalog file when `reloads`, and leaves the viewer otherwise
Viewed(A, reloads) ==
    /\ A
    /\ viewer' = IF reloads
                 THEN load_db_records(viewer, RowsOf(current_db_path', files'))
                 ELSE viewer

-----------------------------------------------------------------------------
(* Handlers of the main window *)

Idle == ~unmatched_open /\ ~problems_open

\* the user types a storage id
SetStorageId(text) ==
    /\ Idle
    /\ text # storage_id_var
    /\ storage_id_var' = text
    /\ msg' = Quiet
    /\ UNCHANGED <<catalog, disk, all_files_info, unmatchedwin,
                   problemswin, session>>

\* list_files on a folder whose walk yields `walk`
ListFiles(walk) ==
    /\ Idle
    /\ disk' = walk
    /\ all_files_info' = SortByName(get_files_info(walk))
    /\ msg' = Quiet
    /\ UNCHANGED <<catalog, storage_id_var, unmatchedwin,
                   problemswin, session>>

\* export_to_sqlite: it always writes to master_db_path and, when it
\* succeeds, records that path in the settings and makes it the current one
ExportToSqlite ==
    /\ Idle
    /\ IF all_files_info = <<>>
       THEN /\ msg' = Note("export_to_sqlite", "No files to export")
            /\ UNCHANGED <<catalog, session>>
       ELSE LET tx == ExportLoop(Begin(files, next_id), all_files_info, get_storage_id) IN
            /\ tx.next_id <= MaxId + 1
            /\ IF tx.err
               THEN /\ msg' = Note("export_to_sqlite", "Error")
                    /\ UNCHANGED <<files, next_id, session>>
               ELSE /\ files' = tx.files
                    /\ next_id' = tx.next_id
                    /\ settings' = save_settings(master_db_path)
                    /\ current_db_path' = master_db_path
                    /\ msg' = Message("export_to_sqlite", "Export complete", tx)
            /\ UNCHANGED categories
    /\ UNCHANGED <<storage_id_var, disk, all_files_info,
                   unmatchedwin, problemswin>>

\* export_to_sqlite when sqlite3 raises a non-row error (database locked,
\* unreadable file, disk full) after `done` files of the loop: done = 0 is a
\* failure before the loop, done = Len(all_files_info) one in conn.commit()
ExportToSqliteFails(done) ==
    /\ Idle
    /\ all_files_info # <<>>
    /\ done \in 0..Len(all_files_info)
    /\ LET tx == ExportLoop(Begin(files, next_id),
                            SubSeq(all_files_info, 1, done), get_storage_id) IN
       /\ files' = Abort(files, next_id, tx).files
       /\ next_id' = Abort(files, next_id, tx).next_id
    /\ msg' = Note("export_to_sqlite", "Error")
    /\ UNCHANGED <<categories, mainwin, unmatchedwin, problemswin, session>>

\* one pass of the loop of update_storage_id_from_scan: the rows it changes
KnownNow_AnyStorage(rows, f) == SelectExact(rows, f.name_without_ext, f.size)

KnownNow(rows, f) ==
    {r \in SelectExact(rows, f.name_without_ext, f.size) : r.storage_id = "UNKNOWN"}

StorageOne(tx, f, storage_id) ==
    [tx EXCEPT
       !.files = {IF r \in KnownNow(tx.files, f)
                  THEN [r EXCEPT !.storage_id = storage_id] ELSE r : r \in tx.files},
       !.updated = @ + Cardinality(KnownNow(tx.files, f))]

RECURSIVE StorageLoop(_, _, _)
StorageLoop(tx, fs, storage_id) ==
    IF fs = <<>> THEN tx
    ELSE StorageLoop(StorageOne(tx, Head(fs), storage_id), Tail(fs), storage_id)

UpdateStorageIdFromScan ==
    /\ Idle
    /\ IF all_files_info = <<>>
       THEN /\ msg' = Note("update_storage_id_from_scan", "No Data")
            /\ UNCHANGED files
       ELSE IF get_storage_id = "UNKNOWN"
       THEN /\ msg' = Note("update_storage_id_from_scan", "Invalid Storage ID")
            /\ UNCHANGED files
       ELSE LET tx == StorageLoop(Begin(files, next_id), all_files_info, get_storage_id) IN
            /\ files' = tx.files
            /\ msg' = Message("update_storage_id_from_scan", "Storage ID Updated", tx)
    /\ UNCHANGED <<next_id, categories, mainwin, unmatchedwin,
                   problemswin, session>>

ShowUnmatchedScannedFiles ==
    /\ Idle
    /\ LET scanned == get_files_info(disk)
           found == ClassifyAll(files, scanned, get_storage_id) IN
       IF scanned = <<>>
       THEN /\ msg' = Note("show_unmatched_scanned_files", "No video files found")
            /\ UNCHANGED unmatchedwin
       ELSE IF found = <<>>
       THEN /\ msg' = Note("show_unmatched_scanned_files", "In sync")
            /\ UNCHANGED unmatchedwin
       ELSE /\ unmatched' = found
            /\ unmatched_open' = TRUE
            /\ msg' = Note("show_unmatched_scanned_files", "Unmatched Video Files")
    /\ UNCHANGED <<catalog, mainwin, problemswin, session>>

\* "Apply Action" on the rows `sel` of the unmatched window
ApplyAction(sel) ==
    /\ unmatched_open
    /\ IF sel = {}
       THEN /\ msg' = Note("apply_action", "Select files first")
            /\ UNCHANGED <<files, next_id, unmatchedwin>>
       ELSE IF HardBlock({unmatched[i].reason : i \in sel})
       THEN /\ msg' = Note("apply_action", "Blocked")
            /\ UNCHANGED <<files, next_id, unmatchedwin>>
       ELSE LET tx == ApplyLoop(Begin(files, next_id), SelectedItems(sel), get_storage_id) IN
            /\ tx.next_id <= MaxId + 1
            /\ IF tx.err
               THEN /\ msg' = Note("apply_action", "Database Error")
                    /\ UNCHANGED <<files, next_id, unmatchedwin>>
               ELSE /\ files' = tx.files
                    /\ next_id' = tx.next_id
                    /\ msg' = Message("apply_action", "Completed", tx)
                    /\ unmatched_open' = FALSE
                    /\ unmatched' = <<>>
    /\ UNCHANGED <<categories, mainwin, problemswin, session>>

\* "Apply Action" when sqlite3 raises a non-row error after `done` rows of the
\* selection: done = 0 is a failure of sqlite3.connect, done = the size of the
\* selection one in conn.commit()
ApplyActionFails(sel, done) ==
    /\ unmatched_open
    /\ sel # {}
    /\ ~HardBlock({unmatched[i].reason : i \in sel})
    /\ done \in 0..Cardinality(sel)
    /\ LET tx == ApplyLoop(Begin(files, next_id),
                           SubSeq(SelectedItems(sel), 1, done), get_storage_id) IN
       /\ files' = Abort(files, next_id, tx).files
       /\ next_id' = Abort(files, next_id, tx).next_id
    /\ msg' = Note("apply_action", "Database Error")
    /\ UNCHANGED <<categories, mainwin, unmatchedwin, problemswin, session>>

\* force_insert_selected_files on the files of the rows `sel`
ForceInsertSelectedFiles(sel) ==
    /\ unmatched_open
    /\ IF sel = {}
       THEN /\ msg' = Note("force_insert_selected_files", "No Selection")
            /\ UNCHANGED <<files, next_id, unmatchedwin>>
       ELSE LET tx == ForceLoop(Begin(files, next_id), SelectedFiles(sel), get_storage_id) IN
            /\ tx.next_id <= MaxId + 1
            /\ IF tx.err
               THEN /\ msg' = Note("force_insert_selected_files", "Insert Error")
                    /\ UNCHANGED <<files, next_id, unmatchedwin>>
               ELSE /\ files' = tx.files
                    /\ next_id' = tx.next_id
                    /\ msg' = Message("force_insert_selected_files", "Force Action Complete", tx)
                    /\ unmatched_open' = FALSE
                    /\ unmatched' = <<>>
    /\ UNCHANGED <<categories, mainwin, problemswin, session>>

\* the "Close" button of the unmatched window
CloseUnmatched ==
    /\ unmatched_open
    /\ unmatched_open' = FALSE
    /\ unmatched' = <<>>
    /\ msg' = Quiet
    /\ UNCHANGED <<catalog, mainwin, problemswin, session>>

-----------------------------------------------------------------------------
(* Explicit deletes and reset of the viewer tab *)

\* delete_selected_db_rows on the rows with the ids `ids`
DeleteSelectedDbRows(ids) ==
    /\ Idle
    /\ ids # {}
    /\ files' = {r \in files : r.id \notin ids}
    /\ msg' = Note("delete_selected_db_rows", "Deleted selected rows")
    /\ UNCHANGED <<next_id, categories, mainwin, unmatchedwin,
                   problemswin, session>>

DeleteAllDbRows ==
    /\ Idle
    /\ files' = {}
    /\ msg' = Note("delete_all_db_rows", "All rows deleted")
    /\ UNCHANGED <<next_id, categories, mainwin, unmatchedwin,
                   problemswin, session>>

\* init_db(fresh=True): both tables dropped and created again
init_db_fresh == [files |-> {}, next_id |-> 1, categories |-> {}]

\* init_db on the catalog db: DROP TABLE IF EXISTS when fresh, then
\* CREATE TABLE IF NOT EXISTS and CREATE UNIQUE INDEX IF NOT EXISTS
init_db(fresh, db) == IF fresh THEN init_db_fresh ELSE db

\* the end of __init__: the catalog is created when its file does not exist
AutoCreate_Resets(exists, db) == init_db(TRUE, db)
AutoCreate(exists, db) == IF ~exists THEN init_db(TRUE, db) ELSE db

\* load_db_records in the same branch of __init__: an existing catalog is
\* not loaded into the viewer
AutoLoad(exists, rows) ==
    IF ~exists THEN load_db_records(NewViewer, rows) ELSE NewViewer

\* recreate_database, confirmed by the user
RecreateDatabase ==
    /\ Idle
    /\ LET db == init_db(TRUE, [files |-> files, next_id |-> next_id,
                                categories |-> categories]) IN
       /\ files' = db.files
       /\ next_id' = db.next_id
       /\ categories' = db.categories
    /\ msg' = Note("recreate_database", "Database recreated")
    /\ UNCHANGED <<mainwin, unmatchedwin, problemswin, session>>

\* open_sqlite_db on the file db_path picked in the dialog
OpenSqliteDb(db_path) ==
    /\ Idle
    /\ current_db_path' = db_path
    /\ settings' = save_settings(db_path)
    /\ msg' = Quiet
    /\ UNCHANGED <<catalog, mainwin, unmatchedwin, problemswin>>

\* add_new_category: INSERT OR IGNORE of the stripped name
add_new_category(cats, name) ==
    IF Strip(name) = "" THEN cats ELSE cats \cup {Strip(name)}

\* edit_cell on the Year cell of the row record_id: save_year with the text
\* typed.  The viewer shows the rows of current_db_path; only the rows of
\* VideoFiles.db are part of the state
SaveYear(record_id, text) ==
    /\ Idle
    /\ current_db_path = master_db_path
    /\ record_id \in Ids(files)
    /\ LET new_val == Strip(text) IN
       IF new_val # "" /\ ~isdigit(new_val)
       THEN /\ msg' = Note("save_year", "Invalid Year")
            /\ UNCHANGED files
       ELSE /\ files' = UpdateYear(files,
                             IF new_val # "" THEN Some(int(new_val)) ELSE NULL,
                             record_id)
            /\ msg' = Quiet
    /\ UNCHANGED <<next_id, categories, mainwin, unmatchedwin,
                   problemswin, session>>

\* edit_cell on the Category cell of the row record_id: save_category
SaveCategory(record_id, text) ==
    /\ Idle
    /\ current_db_path = master_db_path
    /\ record_id \in Ids(files)
    /\ IF Strip(text) = ""
       THEN UNCHANGED <<files, categories>>
       ELSE LET new_val == Title(Strip(text)) IN
            /\ categories' = add_new_category(categories, new_val)
            /\ files' = UpdateCategory(files, Some(new_val), record_id)
    /\ msg' = Quiet
    /\ UNCHANGED <<next_id, mainwin, unmatchedwin, problemswin, session>>

\* open_bulk_category_editor on the selected rows ids: save with the text
\* typed or picked in the combobox
OpenBulkCategoryEditor(ids, text) ==
    /\ Idle
    /\ current_db_path = master_db_path
    /\ ids # {}
    /\ ids \subseteq Ids(files)
    /\ LET final_cat == Strip(text) IN
       IF final_cat = ""
       THEN /\ msg' = Note("open_bulk_category_editor", "Missing")
            /\ UNCHANGED <<files, categories>>
       ELSE /\ categories' = add_new_category(categories, Title(final_cat))
            /\ files' = {IF r.id \in ids
                         THEN [r EXCEPT !.category = Some(Title(final_cat))]
                         ELSE r : r \in files}
            /\ msg' = Note("open_bulk_category_editor", "Updated")
    /\ UNCHANGED <<next_id, mainwin, unmatchedwin, problemswin, session>>

\* the application is closed (on_app_close) and started again (__init__):
\* the catalog file VideoFiles.db exists by then
Restart ==
    /\ Idle
    /\ LET db == AutoCreate(TRUE, [files |-> files, next_id |-> next_id,
                                   categories |-> categories]) IN
       /\ files' = db.files
       /\ next_id' = db.next_id
       /\ categories' = db.categories
    /\ current_db_path' = master_db_path
    /\ storage_id_var' = "UNKNOWN"
    /\ disk' = <<>>
    /\ all_files_info' = <<>>
    /\ msg' = Quiet
    /\ UNCHANGED <<unmatchedwin, problemswin, settings>>

-----------------------------------------------------------------------------
(* Search, sort and pages of the viewer tab *)

SearchTexts == {"", "B", " b"}
CategoryChoices == {"All", "Uncategorized", "A"}
PageSizeTexts == {"0", "1", "x"}

\* the characters of str(x).lower() for the texts of the model
Letters(s) ==
    CASE s \in {"a", "A"} -> {"a"}
      [] s \in {"b", "B"} -> {"b"}
      [] s \in {"d", "D"} -> {"d"}
      [] s \in {"e", "E"} -> {"e"}
      [] s = "UNKNOWN" -> {"u", "n", "k", "o", "w"}
      [] s \in {".mp4", ".MP4"} -> {".", "m", "p", "4"}
      [] s \in {"Drama", "drama", "DRAMA"} -> {"d", "r", "a", "m"}
      [] OTHER -> {}

\* any(q in str(x).lower() for x in r) for a q of one letter: the numeric
\* columns and None hold no letter
Mentions(r, q) ==
    \/ q \in Letters(r.file_name)
    \/ q \in Letters(r.extension)
    \/ q \in Letters(r.storage_id)
    \/ \E i \in DOMAIN r.full_path : q \in Letters(r.full_path[i])
    \/ r.category # NULL /\ q \in Letters(r.category[1])

Search(rows, q) ==
    IF q = "" THEN rows ELSE SelectSeq(rows, LAMBDA r : Mentions(r, q))

ByCategory(rows, selected_cat) ==
    CASE selected_cat = "All" -> rows
      [] selected_cat = "Uncategorized" ->
            SelectSeq(rows, LAMBDA r : r.category \in {NULL, Some("")})
      [] OTHER -> SelectSeq(rows, LAMBDA r : r.category = Some(selected_cat))

\* the values of the category dropdown, as load_category_dropdown set them
\* when the cache was loaded
DropdownValues(v) ==
    {"All", "Uncategorized"} \cup
    {v.db_records_cache[i].category[1] :
        i \in {j \in DOMAIN v.db_records_cache :
                  v.db_records_cache[j].category \notin {NULL, Some("")}}}

FilterDbRecords(text, selected_cat) ==
    /\ Idle
    /\ selected_cat \in DropdownValues(viewer)
    /\ LET q == Strip(Lower(text))
           rows == ByCategory(Search(viewer.db_records_cache, q), selected_cat) IN
       viewer' = ShowRows(viewer, rows)
    /\ msg' = Quiet
    /\ UNCHANGED <<catalog, mainwin, unmatchedwin, problemswin, session>>

FirstDbPage ==
    /\ Idle
    /\ viewer' = IF viewer.total_pages <= 0 THEN viewer
                 ELSE show_db_page(viewer, 0)
    /\ msg' = Quiet
    /\ UNCHANGED <<catalog, mainwin, unmatchedwin, problemswin, session>>

NextDbPage ==
    /\ Idle
    /\ viewer' = IF viewer.current_page + 1 < viewer.total_pages
                 THEN show_db_page(viewer, viewer.current_page + 1)
                 ELSE viewer
    /\ msg' = Quiet
    /\ UNCHANGED <<catalog, mainwin, unmatchedwin, problemswin, session>>

PrevDbPage ==
    /\ Idle
    /\ viewer' = IF viewer.current_page > 0
                 THEN show_db_page(viewer, viewer.current_page - 1)
                 ELSE viewer
    /\ msg' = Quiet
    /\ UNCHANGED <<catalog, mainwin, unmatchedwin, problemswin, session>>

LastDbPage ==
    /\ Idle
    /\ viewer' = IF viewer.total_pages <= 0 THEN viewer
                 ELSE show_db_page(viewer, viewer.total_pages - 1)
    /\ msg' = Quiet
    /\ UNCHANGED <<catalog, mainwin, unmatchedwin, problemswin, session>>

\* self.page_size_var.get(): the number in the entry, or an exception
IntVarGet(text) ==
    CASE text = "0" -> Some(0)
      [] text = "1" -> Some(1)
      [] text = "2" -> Some(2)
      [] OTHER -> NULL

ApplyPageSize(text) ==
    /\ Idle
    /\ LET got == IntVarGet(text) IN
       IF got = NULL \/ got[1] <= 0
       THEN /\ viewer' = viewer
            /\ msg' = Note("apply_page_size", "Invalid page size")
       ELSE /\ viewer' = show_db_page(
                  [viewer EXCEPT !.page_size = got[1],
                                 !.total_pages =
                                     PageCount(Len(viewer.all_filtered_rows), got[1]),
                                 !.current_page = 0], 0)
            /\ msg' = Quiet
    /\ UNCHANGED <<catalog, mainwin, unmatchedwin, problemswin, session>>

\* the sort key of a row under the heading col
ColumnKey(r, col) ==
    IF col = "Size" THEN r.size_bytes ELSE CodePoint(Lower(r.file_name))

\* sorted(rows, key, reverse): stable in both directions
RECURSIVE sorted(_, _, _)
sorted(rows, col, reverse) ==
    IF rows = <<>> THEN <<>>
    ELSE LET n == Len(rows)
             x == rows[n]
             acc == sorted(SubSeq(rows, 1, n - 1), col, reverse)
             k == Cardinality({i \in DOMAIN acc :
                      IF reverse THEN ColumnKey(acc[i], col) >= ColumnKey(x, col)
                      ELSE ColumnKey(acc[i], col) <= ColumnKey(x, col)}) IN
         SubSeq(acc, 1, k) \o <<x>> \o SubSeq(acc, k + 1, Len(acc))

SortDbByColumn(col) ==
    /\ Idle
    /\ IF col = "No"
       THEN viewer' = viewer
       ELSE LET rev == viewer.db_sort_reverse[col] IN
            viewer' = ShowRows([viewer EXCEPT !.db_sort_reverse[col] = ~rev],
                               sorted(viewer.all_filtered_rows, col, ~rev))
    /\ msg' = Quiet
    /\ UNCHANGED <<catalog, mainwin, unmatchedwin, problemswin, session>>

\* the application is closed and started again: Restart with the viewer
\* that __init__ builds over the catalog file that exists
RestartViewed == Restart /\ viewer' = AutoLoad(TRUE, files')

-----------------------------------------------------------------------------
(* verify_db_vs_disk and the window it opens *)

MissingOnDisk == "Missing on disk"
MissingInDb == "Exists on disk but missing in DB"

DiskKey(d) == <<Lower(d.base), d.size>>

Keys(index) == {index[i].key : i \in DOMAIN index}

PathsOf(index, key) == (CHOOSE i \in DOMAIN index : index[i].key = key)

\* disk_index.setdefault(key, []).append(full)
IndexAdd(index, key, full) ==
    IF key \in Keys(index)
    THEN [i \in DOMAIN index |->
            IF index[i].key = key
            THEN [index[i] EXCEPT !.paths = Append(@, full)] ELSE index[i]]
    ELSE Append(index, [key |-> key, paths |-> <<full>>])

RECURSIVE BuildDiskIndex(_)
BuildDiskIndex(walk) ==
    IF walk = <<>> THEN <<>>
    ELSE LET d == walk[Len(walk)]
             before == BuildDiskIndex(SubSeq(walk, 1, Len(walk) - 1)) IN
         IF Lower(d.ext) \notin allowed_video_exts THEN before
         ELSE IndexAdd(before, DiskKey(d), PathOf(d))

\* SELECT ... FROM Files WHERE storage_id = ?, in rowid order
RECURSIVE RowsInOrder(_)
RowsInOrder(rows) ==
    IF rows = {} THEN <<>>
    ELSE LET r == fetchone(rows) IN <<r>> \o RowsInOrder(rows \ {r})

RowKey(r) == <<Lower(r.file_name), r.size_bytes>>

Problem(rid, name, size, path, problem) ==
    [rid |-> rid, name |-> name, size |-> size, path |-> path, problem |-> problem]

RECURSIVE MissingRows(_, _)
MissingRows(rows, index) ==
    IF rows = <<>> THEN <<>>
    ELSE (IF RowKey(Head(rows)) \notin Keys(index)
          THEN <<Problem(Some(Head(rows).id), Head(rows).file_name,
                         Head(rows).size_bytes, Head(rows).full_path, MissingOnDisk)>>
          ELSE <<>>) \o MissingRows(Tail(rows), index)

\* a report that names only the first path of each key
RECURSIVE DiskOnly_PerKey(_, _)
DiskOnly_PerKey(index, db_index) ==
    IF index = <<>> THEN <<>>
    ELSE (IF Head(index).key \notin db_index
          THEN <<Problem(NULL, Head(index).key[1], Head(index).key[2],
                         Head(index).paths[1], MissingInDb)>>
          ELSE <<>>) \o DiskOnly_PerKey(Tail(index), db_index)

RECURSIVE DiskOnly(_, _)
DiskOnly(index, db_index) ==
    IF index = <<>> THEN <<>>
    ELSE (IF Head(index).key \notin db_index
          THEN [i \in DOMAIN Head(index).paths |->
                  Problem(NULL, Head(index).key[1], Head(index).key[2],
                          Head(index).paths[i], MissingInDb)]
          ELSE <<>>) \o DiskOnly(Tail(index), db_index)

FindProblems(rows, index) ==
    MissingRows(rows, index) \o DiskOnly(index, {RowKey(rows[i]) : i \in DOMAIN rows})

\* what select_storage_id_dialog can return: a storage id of the catalog, or
\* None after the warning that the catalog holds no storage id
select_storage_id_dialog ==
    IF files = {} THEN {NULL} ELSE {Some(r.storage_id) : r \in files}

\* a verification that deletes the rows it finds missing on disk
VerifyDbVsDisk_Prunes(chosen) ==
    /\ Idle
    /\ chosen \in select_storage_id_dialog
    /\ chosen # NULL
    /\ LET index == BuildDiskIndex(disk)
           rows == RowsInOrder({r \in files : r.storage_id = chosen[1]})
           found == FindProblems(rows, index) IN
       /\ files' = {r \in files : r.storage_id = chosen[1] => RowKey(r) \in Keys(index)}
       /\ IF found = <<>>
          THEN /\ msg' = Note("verify_db_vs_disk", "No discrepancies")
               /\ UNCHANGED problemswin
          ELSE /\ problems' = found
               /\ disk_index' = index
               /\ problems_open' = TRUE
               /\ msg' = Note("verify_db_vs_disk", "DB vs Disk Verification")
    /\ UNCHANGED <<next_id, categories, mainwin, unmatchedwin, session>>

\* verify_db_vs_disk for what the storage id dialog returns
VerifyDbVsDisk(chosen) ==
    /\ Idle
    /\ chosen \in select_storage_id_dialog
    /\ LET index == BuildDiskIndex(disk)
           rows == RowsInOrder({r \in files : r.storage_id = chosen[1]})
           found == FindProblems(rows, index) IN
       IF chosen = NULL
       THEN /\ msg' = Note("verify_db_vs_disk", "No Storage IDs")
            /\ UNCHANGED problemswin
       ELSE IF rows = <<>>
       THEN /\ msg' = Note("verify_db_vs_disk", "Not found")
            /\ UNCHANGED problemswin
       ELSE IF found = <<>>
       THEN /\ msg' = Note("verify_db_vs_disk", "No discrepancies")
            /\ UNCHANGED problemswin
       ELSE /\ problems' = found
            /\ disk_index' = index
            /\ problems_open' = TRUE
            /\ msg' = Note("verify_db_vs_disk", "DB vs Disk Verification")
    /\ UNCHANGED <<catalog, mainwin, unmatchedwin, session>>

\* the rows of a tree that a handler did not delete
RECURSIVE Remaining(_, _)
Remaining(items, gone) ==
    IF items = <<>> THEN <<>>
    ELSE Remaining(SubSeq(items, 1, Len(items) - 1), gone)
         \o (IF Len(items) \in gone THEN <<>> ELSE <<items[Len(items)]>>)

\* UPDATE/DELETE ... WHERE id=? with the ID cell of a problem row
RidOf(item) == IF item.rid = NULL THEN 0 ELSE item.rid[1]

\* a fix that deletes the row of a file it cannot find on disk
FixOne_DropsMissing(tx, item, index) ==
    LET key == <<Lower(item.name), item.size>> IN
    IF key \notin Keys(index)
    THEN [tx EXCEPT !.files = {r \in @ : r.id # RidOf(item)}]
    ELSE [tx EXCEPT
            !.files = UpdatePath(@, index[PathsOf(index, key)].paths[1], RidOf(item)),
            !.updated = @ + 1]

\* one pass of the loop of fix_by_filename
FixOne(tx, item, index) ==
    LET key == <<Lower(item.name), item.size>> IN
    IF key \notin Keys(index) THEN tx
    ELSE [tx EXCEPT
            !.files = UpdatePath(@, index[PathsOf(index, key)].paths[1], RidOf(item)),
            !.updated = @ + 1]

RECURSIVE FixLoop(_, _, _)
FixLoop(tx, items, index) ==
    IF items = <<>> THEN tx
    ELSE FixLoop(FixOne(tx, Head(items), index), Tail(items), index)

ChosenProblems(sel) == [i \in DOMAIN Selection(sel, Len(problems)) |->
                           problems[Selection(sel, Len(problems))[i]]]

\* "Auto-fix path" on the rows `sel` of the problems window
FixByFilename(sel) ==
    /\ problems_open
    /\ IF sel = {}
       THEN /\ msg' = Note("fix_by_filename", "Select at least one record")
            /\ UNCHANGED <<files, problems>>
       ELSE LET tx == FixLoop(Begin(files, next_id), ChosenProblems(sel), disk_index) IN
            /\ files' = tx.files
            /\ problems' = Remaining(problems,
                              {i \in sel : <<Lower(problems[i].name), problems[i].size>>
                                              \in Keys(disk_index)})
            /\ msg' = Message("fix_by_filename", "Auto-fix", tx)
    /\ UNCHANGED <<next_id, categories, mainwin, unmatchedwin,
                   problems_open, disk_index, session>>

\* "Edit path manually" on the first selected row, with the file the user picks
EditSelectedPath(i, new) ==
    /\ problems_open
    /\ i \in DOMAIN problems
    /\ files' = UpdatePath(files, new, RidOf(problems[i]))
    /\ problems' = Remaining(problems, {i})
    /\ msg' = Quiet
    /\ UNCHANGED <<next_id, categories, mainwin, unmatchedwin,
                   problems_open, disk_index, session>>

\* "Delete DB record" on the rows `sel`, confirmed by the user
DeleteSelectedProblem(sel) ==
    /\ problems_open
    /\ sel # {}
    /\ files' = {r \in files : r.id \notin {RidOf(problems[i]) : i \in sel}}
    /\ problems' = Remaining(problems, sel)
    /\ problems_open' = (problems' # <<>>)
    /\ disk_index' = IF problems' # <<>> THEN disk_index ELSE <<>>
    /\ msg' = Quiet
    /\ UNCHANGED <<next_id, categories, mainwin, unmatchedwin, session>>

\* the problems window is closed
CloseProblems ==
    /\ problems_open
    /\ problems_open' = FALSE
    /\ problems' = <<>>
    /\ disk_index' = <<>>
    /\ msg' = Quiet
    /\ UNCHANGED <<catalog, mainwin, unmatchedwin, session>>

-----------------------------------------------------------------------------

\* the first start: neither VideoFiles.db nor app_settings.json exists
Init ==
    /\ files = AutoCreate(FALSE, init_db_fresh).files
    /\ next_id = AutoCreate(FALSE, init_db_fresh).next_id
    /\ categories = AutoCreate(FALSE, init_db_fresh).categories
    /\ current_db_path = master_db_path
    /\ settings = NoSettings
    /\ viewer = AutoLoad(FALSE, AutoCreate(FALSE, init_db_fresh).files)
    /\ storage_id_var = "UNKNOWN"
    /\ disk = <<>>
    /\ all_files_info = <<>>
    /\ unmatched_open = FALSE
    /\ unmatched = <<>>
    /\ problems_open = FALSE
    /\ problems = <<>>
    /\ disk_index = <<>>
    /\ msg = Quiet

Next ==
    \/ \E text \in StorageTexts : Unobserved(SetStorageId(text))
    \/ \E walk \in Walks : Unobserved(ListFiles(walk))
    \/ Unobserved(ExportToSqlite)
    \/ \E done \in 0..MaxScan : Unobserved(ExportToSqliteFails(done))
    \/ Unobserved(UpdateStorageIdFromScan)
    \/ Unobserved(ShowUnmatchedScannedFiles)
    \/ \E sel \in SUBSET (1..Len(unmatched)) : Unobserved(ApplyAction(sel))
    \/ \E sel \in SUBSET (1..Len(unmatched)), done \in 0..MaxScan :
          Unobserved(ApplyActionFails(sel, done))
    \/ \E sel \in SUBSET (1..Len(unmatched)) : Unobserved(ForceInsertSelectedFiles(sel))
    \/ Unobserved(CloseUnmatched)
    \/ \E ids \in SUBSET Ids(files) : Unobserved(DeleteSelectedDbRows(ids))
    \/ Unobserved(DeleteAllDbRows)
    \/ Unobserved(RecreateDatabase)
    \/ \E chosen \in select_storage_id_dialog : Unobserved(VerifyDbVsDisk(chosen))
    \/ \E sel \in SUBSET (1..Len(problems)) : Unobserved(FixByFilename(sel))
    \/ Unobserved(CloseProblems)

Spec == Init /\ [][Next]_vars

\* the verification workflow: the catalog is filled by exports, then verified
\* against the disk and repaired from the problems window
VerifyTexts == {"A"}

NextVerify ==
    \/ \E text \in VerifyTexts : Unobserved(SetStorageId(text))
    \/ \E walk \in Walks : Unobserved(ListFiles(walk))
    \/ Unobserved(ExportToSqlite)
    \/ \E chosen \in select_storage_id_dialog : Unobserved(VerifyDbVsDisk(chosen))
    \/ \E sel \in SUBSET (1..Len(problems)) : Unobserved(FixByFilename(sel))
    \/ \E i \in 1..Len(problems), j \in 1..Len(disk) :
          Unobserved(EditSelectedPath(i, PathOf(disk[j])))
    \/ \E sel \in SUBSET (1..Len(problems)) : Unobserved(DeleteSelectedProblem(sel))
    \/ Unobserved(CloseProblems)

SpecVerify == Init /\ [][NextVerify]_vars

\* the life of the catalog file over sessions: it is filled by exports and
\* new categories, another file is opened, the catalog is reset, and the
\* application is closed and started again
YearTexts == {"", "1999", "x"}
CategoryTexts == {"a", " A", " "}

NextStartup ==
    \/ \E text \in VerifyTexts : Unobserved(SetStorageId(text))
    \/ \E walk \in Walks : Unobserved(ListFiles(walk))
    \/ Unobserved(ExportToSqlite)
    \/ \E record_id \in 1..MaxId, text \in CategoryTexts :
          Unobserved(SaveCategory(record_id, text))
    \/ \E db_path \in DbPaths : Unobserved(OpenSqliteDb(db_path))
    \/ Unobserved(RecreateDatabase)
    \/ Unobserved(Restart)

SpecStartup == Init /\ [][NextStartup]_vars

\* the assignment of categories: the same names typed in several spellings
CategorySpellings ==
    {"a", " A", "drama", "DRAMA", " Drama ", "drama ", " "}

NextCategories ==
    \/ \E walk \in Walks : Unobserved(ListFiles(walk))
    \/ Unobserved(ExportToSqlite)
    \/ \E record_id \in 1..MaxId, text \in CategorySpellings :
          Unobserved(SaveCategory(record_id, text))
    \/ \E ids \in SUBSET (1..MaxId), text \in CategorySpellings :
          Unobserved(OpenBulkCategoryEditor(ids, text))
    \/ \E ids \in SUBSET Ids(files) : Unobserved(DeleteSelectedDbRows(ids))

SpecCategories == Init /\ [][NextCategories]_vars

\* folders that also hold files that are no videos, and a video whose
\* extension is written in upper case
ScanFiles ==
    {[dir |-> "d", base |-> "a", ext |-> ".mp4", size |-> 1],
     [dir |-> "e", base |-> "a", ext |-> ".mp4", size |-> 1],
     [dir |-> "d", base |-> "b", ext |-> ".MP4", size |-> 1],
     [dir |-> "d", base |-> "b", ext |-> ".txt", size |-> 1],
     [dir |-> "d", base |-> "a", ext |-> "", size |-> 2]}

ScanWalks ==
    UNION {{w \in [1..n -> ScanFiles] :
              \A i, j \in 1..n :
                  i # j => normcase(PathOf(w[i])) # normcase(PathOf(w[j]))}
           : n \in 0..MaxScan}

NextScan ==
    \/ \E text \in VerifyTexts : Unobserved(SetStorageId(text))
    \/ \E walk \in ScanWalks : Unobserved(ListFiles(walk))
    \/ Unobserved(ExportToSqlite)
    \/ Unobserved(UpdateStorageIdFromScan)
    \/ Unobserved(ShowUnmatchedScannedFiles)
    \/ \E sel \in SUBSET (1..Len(unmatched)) : Unobserved(ApplyAction(sel))
    \/ Unobserved(CloseUnmatched)

SpecScan == Init /\ [][NextScan]_vars

\* the operations that change rows of the catalog in place: the moves that
\* apply_action and export_to_sqlite record, the storage id update, the path
\* fixes of the verification window and the edits of year and category
\* folders that hold at most one file, named "a"
EditWalks == {walk \in Walks : Len(walk) <= 1 /\ \A i \in DOMAIN walk : walk[i].base = "a"}

NextEdits ==
    \/ \E text \in VerifyTexts : Unobserved(SetStorageId(text))
    \/ \E walk \in EditWalks : Unobserved(ListFiles(walk))
    \/ Unobserved(ExportToSqlite)
    \/ Unobserved(UpdateStorageIdFromScan)
    \/ Unobserved(ShowUnmatchedScannedFiles)
    \/ \E sel \in SUBSET (1..Len(unmatched)) : Unobserved(ApplyAction(sel))
    \/ Unobserved(CloseUnmatched)
    \/ \E chosen \in select_storage_id_dialog : Unobserved(VerifyDbVsDisk(chosen))
    \/ \E sel \in SUBSET (1..Len(problems)) : Unobserved(FixByFilename(sel))
    \/ \E i \in 1..Len(problems), j \in 1..Len(disk) :
          Unobserved(EditSelectedPath(i, PathOf(disk[j])))
    \/ Unobserved(CloseProblems)
    \/ \E record_id \in 1..MaxId, text \in YearTexts : Unobserved(SaveYear(record_id, text))
    \/ \E record_id \in 1..MaxId, text \in CategoryTexts :
          Unobserved(SaveCategory(record_id, text))

SpecEdits == Init /\ [][NextEdits]_vars

\* The viewer tab: the handlers with their refresh of the viewer, where
\* they make one, and the search, sort and page buttons.
ViewerWalks ==
    {walk \in Walks : \A i \in DOMAIN walk : walk[i].dir = "d"}

NextViewer ==
    \/ \E walk \in ViewerWalks : Viewed(ListFiles(walk), FALSE)
    \/ Viewed(ExportToSqlite, FALSE)
    \/ \E record_id \in 1..MaxId, text \in CategoryTexts :
          Viewed(SaveCategory(record_id, text), FALSE)
    \/ \E ids \in SUBSET Ids(files) : Viewed(DeleteSelectedDbRows(ids), TRUE)
    \/ Viewed(OpenSqliteDb(master_db_path), TRUE)
    \/ RestartViewed
    \/ \E text \in SearchTexts, selected_cat \in CategoryChoices :
          FilterDbRecords(text, selected_cat)
    \/ \E col \in SortColumns : SortDbByColumn(col)
    \/ \E text \in PageSizeTexts : ApplyPageSize(text)
    \/ FirstDbPage
    \/ NextDbPage
    \/ PrevDbPage
    \/ LastDbPage

SpecViewer == Init /\ [][NextViewer]_vars

-----------------------------------------------------------------------------
(* Properties *)

\* C1: in every reachable state no two rows of Files share the same
\* (file_name, size_bytes) pair.
UniqueIdentity ==
    \A r1, r2 \in files :
        (r1.file_name = r2.file_name /\ r1.size_bytes = r2.size_bytes) => r1 = r2

\* the constraint has refused an insert of a batch while the catalog holds rows
UniqueIdentityWitness ==
    /\ msg.op = "apply_action"
    /\ msg.kind = "Database Error"
    /\ files # {}

\* C2: an export_to_sqlite run right after a completed export_to_sqlite, with
\* the same scan and the same storage id, inserts nothing and updates nothing.
IdempotentRescan ==
    [][(/\ msg.op = "export_to_sqlite"
        /\ msg.kind = "Export complete"
        /\ msg'.op = "export_to_sqlite"
        /\ all_files_info' = all_files_info
        /\ storage_id_var' = storage_id_var)
       => (msg'.inserted = 0 /\ msg'.updated = 0)]_vars

\* C3: apply_action on a selection that holds at least one item classified
\* "Duplicate video on another storage", alone or mixed with other items, is
\* refused as blocked and leaves the catalog exactly as it was.
DuplicateBlocksBatch ==
    [][\A sel \in SUBSET (1..Len(unmatched)) :
          (/\ msg'.op = "apply_action"
           /\ \E i \in sel : unmatched[i].reason = Duplicate
           /\ ApplyAction(sel))
          => (msg'.kind = "Blocked" /\ files' = files /\ next_id' = next_id)]_vars

\* a batch was blocked in a window that lists a duplicate next to an item
\* apply_action would otherwise write
DuplicateBlocksBatchWitness ==
    /\ unmatched_open
    /\ msg.op = "apply_action"
    /\ msg.kind = "Blocked"
    /\ \E i, j \in DOMAIN unmatched :
          /\ unmatched[i].reason = Duplicate
          /\ unmatched[j].reason \in {Moved, NotPresent, Mismatch}

\* C4: export_to_sqlite, apply_action and force_insert_selected_files leave
\* every row untouched whose (file_name, size_bytes) is that of a scanned
\* descriptor and whose storage id is not the one being scanned, and add no
\* second row for that pair.
DuplicateElsewhereUntouched ==
    [][msg'.op \in {"export_to_sqlite", "apply_action", "force_insert_selected_files"}
       => \A r \in files :
            (/\ r.storage_id # get_storage_id
             /\ \E k \in DOMAIN all_files_info :
                   /\ all_files_info[k].name_without_ext = r.file_name
                   /\ all_files_info[k].size = r.size_bytes)
            => (/\ r \in files'
                /\ \A q \in files' :
                      (q.file_name = r.file_name /\ q.size_bytes = r.size_bytes)
                      => q = r)]_vars

\* an export wrote one scanned file and passed over another that is held
\* under a different storage
DuplicateElsewhereUntouchedWitness ==
    /\ msg.op = "export_to_sqlite"
    /\ msg.blocked > 0
    /\ msg.inserted > 0

\* C5: the unmatched window lists every scanned descriptor under exactly one
\* of the classes: name match with size mismatch, not present, moved (same
\* pair and storage, other path), duplicate on another storage; a descriptor
\* in sync (same pair, storage and path) is left out.  The five classes are
\* disjoint and cover every descriptor.  Paths are compared without case.
ClassificationCorrect ==
    LET scanned == get_files_info(disk)
        same(f) == {r \in files : r.file_name = f.name_without_ext
                                    /\ r.size_bytes = f.size}
        named(f) == {r \in files : r.file_name = f.name_without_ext}
        classes(f) ==
            {c \in {Mismatch, NotPresent, Moved, Duplicate, "In sync"} :
                \/ c = Mismatch /\ same(f) = {} /\ named(f) # {}
                \/ c = NotPresent /\ named(f) = {}
                \/ c = Moved /\ \E r \in same(f) :
                        /\ r.storage_id = get_storage_id
                        /\ normcase(r.full_path) # normcase(f.full_path)
                \/ c = "In sync" /\ \E r \in same(f) :
                        /\ r.storage_id = get_storage_id
                        /\ normcase(r.full_path) = normcase(f.full_path)
                \/ c = Duplicate /\ \E r \in same(f) : r.storage_id # get_storage_id}
        listed(f) == {i \in DOMAIN unmatched : unmatched[i].f = f}
    IN /\ unmatched_open =>
            /\ \A k \in DOMAIN scanned :
                  /\ Cardinality(classes(scanned[k])) = 1
                  /\ {unmatched[i].reason : i \in listed(scanned[k])}
                        = classes(scanned[k]) \ {"In sync"}
                  /\ Cardinality(listed(scanned[k])) <= 1
            /\ \A i \in DOMAIN unmatched :
                  \E k \in DOMAIN scanned : scanned[k] = unmatched[i].f
       /\ (msg.op = "show_unmatched_scanned_files" /\ msg.kind = "In sync") =>
            \A k \in DOMAIN scanned : classes(scanned[k]) = {"In sync"}

\* the window is open and leaves out a scanned file whose stored path differs
\* from the scanned one in case only
ClassificationCorrectWitness ==
    /\ unmatched_open
    /\ msg.op = "show_unmatched_scanned_files"
    /\ Len(unmatched) < Len(get_files_info(disk))
    /\ \E k \in DOMAIN disk, r \in files :
          /\ r.file_name = disk[k].base
          /\ r.size_bytes = disk[k].size
          /\ r.storage_id = get_storage_id
          /\ r.full_path # PathOf(disk[k])
          /\ normcase(r.full_path) = normcase(PathOf(disk[k]))

\* C6: an apply_action batch without duplicates is committed even when one of
\* its inserts collides with UNIQUE(file_name, size_bytes): the colliding row
\* is counted as skipped, and the pair of every selected insert is in the
\* catalog afterwards.
CollisionCountedAsSkipped ==
    [][\A sel \in SUBSET (1..Len(unmatched)) :
          (/\ msg'.op = "apply_action"
           /\ sel # {}
           /\ \A i \in sel : unmatched[i].reason # Duplicate
           /\ ApplyAction(sel))
          => LET inserts == {i \in sel : unmatched[i].reason \in {NotPresent, Mismatch}} IN
             /\ msg'.kind = "Completed"
             /\ msg'.inserted + msg'.skipped = Cardinality(inserts)
             /\ \A i \in inserts :
                   \E r \in files' :
                       /\ r.file_name = unmatched[i].f.name_without_ext
                       /\ r.size_bytes = unmatched[i].f.size]_vars

\* C7: a scanned file whose (name, size) is held under the scanned storage at
\* another path is listed as moved with the id of its row; a completed
\* apply_action gives that row the scanned path, keeps its id, file_name,
\* size_bytes and storage_id, and adds no row for it; applying a moved item on
\* its own always completes.
MovedDetectedAndApplied ==
    [][/\ msg'.op = "show_unmatched_scanned_files" =>
            \A k \in DOMAIN disk, r \in files :
                (/\ r.file_name = disk[k].base
                 /\ r.size_bytes = disk[k].size
                 /\ r.storage_id = get_storage_id
                 /\ normcase(r.full_path) # normcase(PathOf(disk[k])))
                => \E i \in DOMAIN unmatched' :
                      /\ unmatched'[i].f.full_path = PathOf(disk[k])
                      /\ unmatched'[i].reason = Moved
                      /\ unmatched'[i].db_id = Some(r.id)
       /\ \A sel \in SUBSET (1..Len(unmatched)) :
            (msg'.op = "apply_action" /\ ApplyAction(sel)) =>
               LET moves == {i \in sel : unmatched[i].reason = Moved} IN
               /\ (sel # {} /\ moves = sel /\ Cardinality(sel) = 1) => msg'.kind = "Completed"
               /\ (sel # {} /\ moves = sel) => Ids(files') = Ids(files)
               /\ msg'.kind = "Completed" =>
                    \A i \in moves :
                        \E r \in files, q \in files' :
                            /\ r.id = unmatched[i].db_id[1]
                            /\ q.id = r.id
                            /\ q.file_name = r.file_name
                            /\ q.size_bytes = r.size_bytes
                            /\ q.storage_id = r.storage_id
                            /\ (\A j \in moves :
                                    unmatched[j].db_id = unmatched[i].db_id => j <= i)
                               => q.full_path = unmatched[i].f.full_path]_vars

\* a completed apply_action has moved a row and inserted none
MovedDetectedAndAppliedWitness ==
    /\ msg.op = "apply_action"
    /\ msg.kind = "Completed"
    /\ msg.updated = 1
    /\ msg.inserted = 0
    /\ \E r \in files : r.full_path[1] = "e" /\ r.creation_date = "t2"

\* C8: against an empty catalog every scanned file is listed as not present;
\* applying one item that is not present completes and adds exactly one row,
\* with the file_name, size_bytes and full_path of the descriptor and the
\* storage id of the scan, and changes no other row.
NewFileInserted ==
    [][/\ (msg'.op = "show_unmatched_scanned_files" /\ files = {}
                /\ get_files_info(disk) # <<>>) =>
            /\ unmatched_open'
            /\ unmatched' = [k \in DOMAIN get_files_info(disk) |->
                                Item(get_files_info(disk)[k], NotPresent, NULL)]
       /\ \A i \in DOMAIN unmatched :
            (/\ msg'.op = "apply_action"
             /\ unmatched[i].reason = NotPresent
             /\ ApplyAction({i}))
            => /\ msg'.kind = "Completed"
               /\ files \subseteq files'
               /\ Cardinality(files' \ files) = 1
               /\ \A r \in files' \ files :
                     /\ r.file_name = unmatched[i].f.name_without_ext
                     /\ r.size_bytes = unmatched[i].f.size
                     /\ r.full_path = unmatched[i].f.full_path
                     /\ r.storage_id = get_storage_id]_vars

\* one item was applied to an empty catalog under a storage id the user typed
NewFileInsertedWitness ==
    /\ msg.op = "apply_action"
    /\ msg.kind = "Completed"
    /\ msg.inserted = 1
    /\ next_id = 2
    /\ \E r \in files : files = {r} /\ r.storage_id = "B"

\* C9: show_unmatched_scanned_files and verify_db_vs_disk change no row of
\* the catalog, nor the id sequence, nor the categories; a row reported as
\* missing on disk stays.
ClassificationMutatesNothing ==
    [][msg'.op \in {"show_unmatched_scanned_files", "verify_db_vs_disk"}
       => (files' = files /\ next_id' = next_id /\ categories' = categories)]_vars

\* the verification has reported a row as missing on disk and the row is
\* still in the catalog
ClassificationMutatesNothingWitness ==
    /\ problems_open
    /\ msg.op = "verify_db_vs_disk"
    /\ \E i \in DOMAIN problems, r \in files :
          /\ problems[i].problem = MissingOnDisk
          /\ problems[i].rid = Some(r.id)
          /\ problems[i].path = r.full_path

\* C10: export_to_sqlite, apply_action, force_insert_selected_files,
\* update_storage_id_from_scan and fix_by_filename keep every row id of the
\* catalog; a row id disappears only in a delete or a reset.
ScanNeverRemovesRows ==
    [][/\ msg'.op \in {"export_to_sqlite", "apply_action",
                        "force_insert_selected_files",
                        "update_storage_id_from_scan", "fix_by_filename"}
            => Ids(files) \subseteq Ids(files')
       /\ ~(Ids(files) \subseteq Ids(files'))
            => msg'.op \in {"delete_selected_db_rows", "delete_all_db_rows",
                            "recreate_database"}]_vars

\* an export has completed and the catalog still holds a row of the scanned
\* storage that the scan does not contain
ScanNeverRemovesRowsWitness ==
    /\ msg.op = "export_to_sqlite"
    /\ msg.kind = "Export complete"
    /\ msg.inserted > 0
    /\ \E r \in files :
          /\ r.storage_id = get_storage_id
          /\ \A k \in DOMAIN all_files_info :
                all_files_info[k].name_without_ext # r.file_name
                \/ all_files_info[k].size # r.size_bytes

\* C11: verify_db_vs_disk reports, for the storage it verifies, every row
\* whose (lower-cased name, size) key is not on the disk as missing on disk, and
\* every disk file whose key is not a key of those rows as missing in the
\* database, for every catalog and disk, a catalog without a row for the
\* storage and an empty disk included.
VerifyReportsAll ==
    [][\A chosen \in select_storage_id_dialog :
          (msg'.op = "verify_db_vs_disk" /\ VerifyDbVsDisk(chosen)) =>
             LET rows == IF chosen = NULL THEN {}
                         ELSE {r \in files : r.storage_id = chosen[1]}
                 on_disk == {<<Lower(disk[k].base), disk[k].size>> : k \in DOMAIN disk}
                 in_db == {<<Lower(r.file_name), r.size_bytes>> : r \in rows}
                 found == IF problems_open' THEN problems' ELSE <<>>
             IN /\ \A r \in rows :
                      <<Lower(r.file_name), r.size_bytes>> \notin on_disk
                      => \E i \in DOMAIN found :
                            /\ found[i].rid = Some(r.id)
                            /\ found[i].problem = MissingOnDisk
                /\ \A k \in DOMAIN disk :
                      <<Lower(disk[k].base), disk[k].size>> \notin in_db
                      => \E i \in DOMAIN found :
                            /\ found[i].path = PathOf(disk[k])
                            /\ found[i].problem = MissingInDb]_vars

\* C12: an apply_action or export_to_sqlite batch that ends with an error
\* message, whatever was executed before the failure, leaves the rows of the
\* catalog and its id sequence exactly as they were.
FailedBatchAppliesNothing ==
    [][(/\ msg'.op \in {"apply_action", "export_to_sqlite"}
        /\ msg'.kind \in {"Database Error", "Error"})
       => (files' = files /\ next_id' = next_id)]_vars

\* a batch of one insert, which cannot collide, has ended with an error
FailedBatchAppliesNothingWitness ==
    /\ unmatched_open
    /\ msg.op = "apply_action"
    /\ msg.kind = "Database Error"
    /\ Len(unmatched) = 1
    /\ unmatched[1].reason = NotPresent

\* C13: apply_action refuses every selection that holds a duplicate on
\* another storage; force_insert_selected_files on the same kind of selection
\* is not refused: it completes, and for every selected item that is not such
\* a duplicate the catalog then holds its (name, size) under the scanned
\* storage, at the item's path when it is the last selected item of its pair.
OverrideAppliesBatch ==
    [][\A sel \in SUBSET (1..Len(unmatched)) :
          /\ (/\ msg'.op = "apply_action"
              /\ \E i \in sel : unmatched[i].reason = Duplicate
              /\ ApplyAction(sel))
             => msg'.kind = "Blocked"
          /\ (/\ msg'.op = "force_insert_selected_files"
              /\ sel # {}
              /\ ForceInsertSelectedFiles(sel))
             => /\ msg'.kind = "Force Action Complete"
                /\ ~unmatched_open'
                /\ \A i \in sel :
                      unmatched[i].reason # Duplicate =>
                         \E r \in files' :
                            /\ r.file_name = unmatched[i].f.name_without_ext
                            /\ r.size_bytes = unmatched[i].f.size
                            /\ r.storage_id = get_storage_id
                            /\ (\A j \in sel :
                                   (/\ unmatched[j].f.name_without_ext
                                         = unmatched[i].f.name_without_ext
                                    /\ unmatched[j].f.size = unmatched[i].f.size)
                                   => j <= i)
                               => r.full_path = unmatched[i].f.full_path]_vars

\* a forced batch has completed, passing over a duplicate on another storage
\* and writing another file
OverrideAppliesBatchWitness ==
    /\ msg.op = "force_insert_selected_files"
    /\ msg.kind = "Force Action Complete"
    /\ msg.blocked > 0
    /\ msg.inserted + msg.updated > 0

\* C14: the counts of a completed apply_action or force_insert_selected_files
\* are exact: inserted is the number of rows the batch added, updated the
\* number of rows that existed before the batch and were changed by it, and
\* inserted + updated + skipped + blocked the number of selected items.
CountsAreExact ==
    [][\A sel \in SUBSET (1..Len(unmatched)) :
          (/\ msg'.kind \in {"Completed", "Force Action Complete"}
           /\ ApplyAction(sel) \/ ForceInsertSelectedFiles(sel))
          => /\ msg'.inserted = Cardinality(Ids(files') \ Ids(files))
             /\ msg'.updated =
                   Cardinality({r \in files : \E q \in files' : q.id = r.id /\ q # r})
             /\ msg'.inserted + msg'.updated + msg'.skipped + msg'.blocked
                   = Cardinality(sel)]_vars

\* C15: an UPDATE for an id that is not in the catalog is not counted as a
\* successful update: fix_by_filename and a completed apply_action count at
\* most the selected items whose id is the id of a row.
MissingIdNotCounted ==
    [][/\ \A sel \in SUBSET (1..Len(problems)) :
            (msg'.op = "fix_by_filename" /\ sel # {} /\ FixByFilename(sel))
            => msg'.updated <=
                 Cardinality({i \in sel : /\ problems[i].rid # NULL
                                          /\ problems[i].rid[1] \in Ids(files)})
       /\ \A sel \in SUBSET (1..Len(unmatched)) :
            (msg'.op = "apply_action" /\ msg'.kind = "Completed" /\ ApplyAction(sel))
            => msg'.updated <=
                 Cardinality({i \in sel : /\ unmatched[i].reason = Moved
                                          /\ unmatched[i].db_id[1] \in Ids(files)})]_vars

\* C16: a scanned descriptor whose (name, size) is held under the scanned
\* storage at a path that differs from the scanned one in letter case only is
\* in sync: show_unmatched_scanned_files does not list it, and neither
\* export_to_sqlite nor force_insert_selected_files updates its row.
CaseOnlyDifferenceIsInSync ==
    [][LET insync(f) ==
              \E r \in files :
                  /\ r.file_name = f.name_without_ext
                  /\ r.size_bytes = f.size
                  /\ r.storage_id = get_storage_id
                  /\ normcase(r.full_path) = normcase(f.full_path)
       IN /\ msg'.op = "show_unmatched_scanned_files"
               => \A i \in DOMAIN unmatched' : ~insync(unmatched'[i].f)
          /\ (/\ msg'.op = "export_to_sqlite"
              /\ msg'.kind = "Export complete"
              /\ \A k \in DOMAIN all_files_info : insync(all_files_info[k]))
               => (files' = files /\ msg'.updated = 0)
          /\ \A sel \in SUBSET (1..Len(unmatched)) :
               (/\ msg'.op = "force_insert_selected_files"
                /\ ForceInsertSelectedFiles(sel)
                /\ \A i \in sel : insync(unmatched[i].f))
               => (files' = files /\ msg'.updated = 0)]_vars

\* C17: results are kept per path, not per (name, size) key: the unmatched
\* window holds exactly one row for every scanned descriptor that is not in
\* sync, and the verification window exactly one "missing in DB" row for every
\* disk path whose key is not a key of the verified storage, also when several
\* paths share one key.
OneResultPerPath ==
    [][/\ (msg'.op = "show_unmatched_scanned_files" /\ unmatched_open') =>
            LET scanned == get_files_info(disk)
                insync(f) ==
                    \E r \in files :
                        /\ r.file_name = f.name_without_ext
                        /\ r.size_bytes = f.size
                        /\ r.storage_id = get_storage_id
                        /\ normcase(r.full_path) = normcase(f.full_path)
            IN /\ Len(unmatched') =
                     Cardinality({k \in DOMAIN scanned : ~insync(scanned[k])})
               /\ \A k \in DOMAIN scanned :
                     ~insync(scanned[k]) =>
                        Cardinality({i \in DOMAIN unmatched' :
                                        unmatched'[i].f.full_path = scanned[k].full_path}) = 1
       /\ \A chosen \in select_storage_id_dialog :
            (msg'.op = "verify_db_vs_disk" /\ problems_open' /\ VerifyDbVsDisk(chosen)) =>
               LET in_db == {<<Lower(r.file_name), r.size_bytes>> :
                                r \in {q \in files : q.storage_id = chosen[1]}}
                   only == {k \in DOMAIN disk :
                               <<Lower(disk[k].base), disk[k].size>> \notin in_db}
               IN /\ Cardinality({i \in DOMAIN problems' :
                                     problems'[i].problem = MissingInDb})
                        = Cardinality(only)
                  /\ \A k \in only :
                        Cardinality({i \in DOMAIN problems' :
                                        /\ problems'[i].problem = MissingInDb
                                        /\ problems'[i].path = PathOf(disk[k])}) = 1]_vars

\* the verification window reports two paths of one (name, size) key
OneResultPerPathWitness ==
    /\ problems_open
    /\ msg.op = "verify_db_vs_disk"
    /\ \E i, j \in DOMAIN problems :
          /\ i # j
          /\ problems[i].problem = MissingInDb
          /\ problems[j].problem = MissingInDb
          /\ problems[i].name = problems[j].name
          /\ problems[i].size = problems[j].size
          /\ problems[i].path # problems[j].path


\* C18: init_db with fresh=False leaves every row of Files and Categories as
\* it is, init_db with fresh=True leaves both tables empty, a start of the
\* application on an existing catalog changes none of its rows, and a step
\* that drops the tables of a catalog holding rows is a recreate_database
\* confirmed by the user.
FreshResetOnlyExplicit ==
    [][LET db == [files |-> files, next_id |-> next_id,
                  categories |-> categories] IN
       /\ init_db(FALSE, db) = db
       /\ init_db(TRUE, db).files = {}
       /\ init_db(TRUE, db).categories = {}
       /\ Restart => (files' = files /\ categories' = categories
                                     /\ next_id' = next_id)
       /\ msg'.op = "recreate_database" => (files' = {} /\ categories' = {})
       /\ (\/ files # {} /\ next_id' = 1
           \/ categories # {} /\ categories' = {})
              => msg'.op = "recreate_database"]_vars

\* a catalog holding rows and categories after a restart: only a restart
\* leaves the settings naming another file than the current one
FreshResetOnlyExplicitWitness ==
    /\ files # {}
    /\ categories # {}
    /\ settings.last_db_path = Some("Other.db")
    /\ current_db_path = master_db_path

\* C20: when the application starts, the catalog in use is the one the
\* settings file records as last_db_path.
StartupOpensLastUsed ==
    [][(Restart /\ settings.last_db_path # NULL)
          => current_db_path' = settings.last_db_path[1]]_vars

\* C19: an operation that modifies a row of the catalog (a Moved apply, the
\* storage id update, a path fix, an edit of year or category) leaves the
\* row's id, file_name, extension, size_bytes and added_on as they were: it
\* changes only storage_id, full_path, creation_date, year and category.
IdentityFieldsKept ==
    [][\A r \in files, q \in files' :
          q.id = r.id => /\ q.file_name = r.file_name
                         /\ q.extension = r.extension
                         /\ q.size_bytes = r.size_bytes
                         /\ q.added_on = r.added_on]_vars

\* a row whose year and category were edited has then been moved by a
\* completed apply_action
IdentityFieldsKeptWitness ==
    /\ msg.op = "apply_action"
    /\ msg.kind = "Completed"
    /\ msg.updated = 1
    /\ \E r \in files : /\ r.year = Some(1999)
                         /\ r.category = Some("A")
                         /\ r.full_path[1] = "e"

\* C21: a year edit whose text is not empty and not purely numeric is
\* rejected before the catalog is touched: the row's year and every other
\* field of the catalog stay as they were.
InvalidYearRejected ==
    [][\A record_id \in 1..MaxId :
          SaveYear(record_id, "x")
             => (files' = files /\ next_id' = next_id
                                /\ categories' = categories)]_vars

\* the warning of save_year was shown for a row whose year had been set
InvalidYearRejectedWitness ==
    /\ msg.op = "save_year"
    /\ msg.kind = "Invalid Year"
    /\ \E r \in files : r.year = Some(1999)

\* C22: no descriptor whose extension is outside the allowed video
\* extensions is in the listed scan, among the classified items of the
\* unmatched window, or in a row of the catalog; the extension a descriptor
\* carries is the lower-cased one.
OnlyVideoFiles ==
    /\ \A k \in DOMAIN all_files_info :
          all_files_info[k].extension \in allowed_video_exts
    /\ \A i \in DOMAIN unmatched :
          unmatched[i].f.extension \in allowed_video_exts
    /\ \A r \in files : r.extension \in allowed_video_exts

\* the folder holds a text file next to a video with an upper-case
\* extension, and a completed apply_action has inserted the video
OnlyVideoFilesWitness ==
    /\ \E k \in DOMAIN disk : disk[k].ext = ".txt"
    /\ \E k \in DOMAIN disk : disk[k].ext = ".MP4"
    /\ msg.op = "apply_action"
    /\ msg.kind = "Completed"
    /\ msg.inserted = 1
    /\ \E r \in files : r.full_path = <<"d", "b", ".MP4">>

\* C23: category names are kept title-cased and distinct: however often the
\* names "a" and "drama" are assigned in spellings that differ in letter case
\* or surrounding blanks, by the cell editor or the bulk editor, Categories
\* holds at most the entries "A" and "Drama", no two entries are equal up to
\* letter case, and an edited row carries the entry's exact name.
CanonicalCategories ==
    /\ categories \subseteq {"A", "Drama"}
    /\ \A c1, c2 \in categories : Lower(c1) = Lower(c2) => c1 = c2
    /\ \A r \in files : r.category # NULL => r.category[1] \in categories

\* both names were assigned: two rows carry the two canonical names
CanonicalCategoriesWitness ==
    /\ categories = {"A", "Drama"}
    /\ \E r \in files : r.category = Some("A")
    /\ \E r \in files : r.category = Some("Drama")
    /\ msg.op = "open_bulk_category_editor"
    /\ msg.kind = "Updated"

\* C24: when the classification of the scan holds no item that is a
\* duplicate on another storage, export_to_sqlite leaves the same catalog
\* (the same rows, with the same storage_id and full_path per name and size)
\* as show_unmatched_scanned_files followed by apply_action on all the
\* items it lists, also when several scanned paths share one name and size.
ExportEquivalentToApply ==
    LET sid == get_storage_id
        items == ClassifyAll(files, get_files_info(disk), sid)
        ex == ExportLoop(Begin(files, next_id), all_files_info, sid)
        ap == ApplyLoop(Begin(files, next_id), items, sid)
        exported == IF ex.err THEN Abort(files, next_id, ex).files ELSE ex.files
        applied == IF ap.err THEN Abort(files, next_id, ap).files ELSE ap.files
        Identity(rows) == {<<r.file_name, r.size_bytes, r.storage_id,
                             r.full_path>> : r \in rows}
    IN  (/\ Idle
         /\ all_files_info = SortByName(get_files_info(disk))
         /\ \A i \in DOMAIN items : items[i].reason # Duplicate)
            => Identity(exported) = Identity(applied)

\* C25: every write goes to the catalog file that is open (current_db_path)
\* and no other file is modified: while another file than VideoFiles.db is
\* the current one, no step of export_to_sqlite or recreate_database changes
\* the content of VideoFiles.db.
WritesTargetCurrentDb ==
    [][current_db_path # master_db_path
          => (files' = files /\ next_id' = next_id
                             /\ categories' = categories)]_vars

\* C26: update_storage_id_from_scan changes only the field storage_id, only
\* on rows stored under 'UNKNOWN' whose name and size match a scanned
\* descriptor; a row under another storage id is never overwritten, no row
\* is set to 'UNKNOWN', the update refuses to run when the entered id is
\* blank or 'UNKNOWN', and the count it reports is the number of rows changed.
StorageUpdateOnlyUnknown ==
    [][UpdateStorageIdFromScan =>
          /\ Ids(files') = Ids(files)
          /\ \A r \in files, q \in files' :
                q.id = r.id =>
                   /\ [q EXCEPT !.storage_id = r.storage_id] = r
                   /\ q # r =>
                        /\ r.storage_id = "UNKNOWN"
                        /\ q.storage_id # "UNKNOWN"
                        /\ q.storage_id = Strip(storage_id_var)
                        /\ \E k \in DOMAIN all_files_info :
                              /\ all_files_info[k].name_without_ext = r.file_name
                              /\ all_files_info[k].size = r.size_bytes
          /\ Strip(storage_id_var) \in {"", "UNKNOWN"} => files' = files
          /\ msg'.kind = "Storage ID Updated" =>
                msg'.updated = Cardinality(files \ files')]_vars

\* an update has assigned the entered id to one row and left alone a
\* scanned row that is stored under another id
StorageUpdateOnlyUnknownWitness ==
    /\ msg.op = "update_storage_id_from_scan"
    /\ msg.kind = "Storage ID Updated"
    /\ msg.updated = 1
    /\ \E r \in files, k \in DOMAIN all_files_info :
          /\ r.storage_id \notin {"UNKNOWN", get_storage_id}
          /\ all_files_info[k].name_without_ext = r.file_name
          /\ all_files_info[k].size = r.size_bytes

\* C27: the number of "Paths updated" that fix_by_filename reports is the
\* number of catalog rows whose full_path it changed, and every selected
\* problem row that is missing on disk and has a file of the same key in the
\* disk index has its row's full_path set to a path of that file.
FixCountsChangedRows ==
    [][\A sel \in SUBSET (1..Len(problems)) :
          (sel # {} /\ FixByFilename(sel)) =>
             /\ msg'.updated = Cardinality(files \ files')
             /\ \A i \in sel :
                   LET key == <<Lower(problems[i].name), problems[i].size>> IN
                   (problems[i].problem = MissingOnDisk /\ key \in Keys(disk_index))
                      => \E q \in files', n \in DOMAIN disk_index :
                            /\ q.id = RidOf(problems[i])
                            /\ disk_index[n].key = key
                            /\ \E m \in DOMAIN disk_index[n].paths :
                                  q.full_path = disk_index[n].paths[m]]_vars

\* C28: after every completed operation that changes the rows of Files
\* (export_to_sqlite, a category edit, a delete, ...), the cached rows of
\* the viewer, db_records_cache, are the rows of Files of the catalog file
\* in use, newest id first.
CacheFollowsCatalog ==
    [][files' # files =>
          viewer'.db_records_cache =
              DB_SELECT_ALL(RowsOf(current_db_path', files'))]_vars

\* C29: in every reachable state of the catalog the duplicate report, the
\* rows of a (file_name, size_bytes) group of more than one row, is empty.
DuplicateReportEmpty == load_duplicate_records(files) = {}

\* two rows share a file name and differ in size, and the report is empty
DuplicateReportEmptyWitness ==
    /\ \E r1, r2 \in files : r1 # r2 /\ r1.file_name = r2.file_name
    /\ load_duplicate_records(files) = {}

\* C30: in every state of the viewer, whatever loads, searches, sorts,
\* page-size changes and page buttons led to it, page_size >= 1,
\* 0 <= current_page < total_pages, and total_pages is the number of rows
\* of all_filtered_rows divided by page_size and rounded up, or 1 when
\* there is no row.
PagesConsistent ==
    LET total == Len(viewer.all_filtered_rows) IN
    /\ viewer.page_size >= 1
    /\ 0 <= viewer.current_page
    /\ viewer.current_page < viewer.total_pages
    /\ IF total = 0 THEN viewer.total_pages = 1
       ELSE /\ viewer.total_pages * viewer.page_size >= total
            /\ (viewer.total_pages - 1) * viewer.page_size < total

=============================================================================
